---------------------------- MODULE Spec2Model ----------------------------
(***************************************************************************)
(* ShelfSight (src/pages/index.tsx): the per-frame detection-to-track      *)
(* pipeline and the React component that drives it, and estimateDistance   *)
(* of src/utils/distance.ts.                                               *)
(*                                                                         *)
(* Numbers.  The program computes in IEEE doubles.  The model uses fixed   *)
(* point with round-to-nearest: box components in pixels, distances in     *)
(* millimetres, scores in percent, time in milliseconds.  IoU values are   *)
(* kept as exact fractions [num, den] and compared by cross                *)
(* multiplication.                                                         *)
(***************************************************************************)
EXTENDS Integers, Sequences, FiniteSets, TLC

VARIABLES
    mounted,            \* the ShelfSight component is mounted
    mode,               \* useState 'intro' | 'active'
    model,              \* useState: TRUE when the COCO-SSD model is set
    isDetecting,        \* useState
    loadState,          \* the async loadModel(): "none" | "loading" | "failed"
    camState,           \* the async startCamera(): "off" | "requesting" | "metadata" | "playing" | "failed"
    streamRef,          \* streamRef.current is a MediaStream
    committed,          \* the [mode, model, isDetecting] the effects last ran for
    animationRef,       \* animationRef.current (0: undefined)
    rafQueue,           \* ids of the requested animation frames not yet run or cancelled
    nextRaf,            \* the id the next requestAnimationFrame returns
    pendingDetect,      \* detectObjects invocations awaiting model.detect
    now,                \* the clock, the last value Date.now() returned
    trackedDetections,  \* trackedDetectionsRef.current: the Map, in insertion order
    announcedObjects,   \* announcedObjectsRef.current: the Set
    detections,         \* the detections state / lastStableDetectionsRef.current
    detectionCount,     \* detectionCountRef.current
    spoken,             \* every speak() of announceDetection: [id, time, text]
    lastTick,           \* what the last processed tick did (history, for the properties)
    call,               \* a direct call of one of the functions: its arguments and result
    legacy              \* the legacy component of utils/distance.ts: state, closures, clock

vars == << mounted, mode, model, isDetecting, loadState, camState, streamRef,
           committed, animationRef, rafQueue, nextRaf, pendingDetect, now,
           trackedDetections, announcedObjects, detections, detectionCount,
           spoken, lastTick, call, legacy >>

ctlVars == << mounted, mode, model, isDetecting, loadState, camState, streamRef, committed >>
trackVars == << now, trackedDetections, announcedObjects, detections, detectionCount,
                spoken, lastTick, call, legacy >>

----------------------------------------------------------------------------
(* Program constants (fixed point: percent, millimetres, milliseconds).    *)

SCORE_THRESHOLD == 50
FOCAL_CONSTANT == 600
DEFAULT_HEIGHT == 300
DISTANCE_MIN == 300
DISTANCE_MAX == 10000
SMOOTHING_ALPHA == 3
ALPHA_SCALE == 10
MIN_FRAMES_FOR_STABILITY == 5
MAX_TRACKING_AGE_MS == 600
MAX_DISPLAY_OBJECTS == 5
MAX_DETECTION_DISTANCE == 4000
MAX_ANNOUNCE_DISTANCE == 3000

FILTERED_CLASSES == {"person", "dog", "cat", "bird", "horse", "sheep", "cow",
                     "elephant", "bear", "zebra", "giraffe"}

\* The entries of KNOWN_HEIGHTS the model's labels use, in millimetres.
KNOWN_HEIGHTS == [bottle |-> 250, cup |-> 120, chair |-> 900]

\* String.prototype.toLowerCase on the labels of the model.
ToLowerCase(s) ==
    CASE s = "Bottle" -> "bottle"
      [] s = "Person" -> "person"
      [] OTHER -> s

\* a / b rounded to the nearest integer (a >= 0, b > 0).
RoundDiv(a, b) == (2 * a + b) \div (2 * b)

Max(a, b) == IF a >= b THEN a ELSE b
Min(a, b) == IF a <= b THEN a ELSE b

----------------------------------------------------------------------------
(* calculateIoU: the fraction intersectionArea / unionArea.  A zero        *)
(* denominator stands for NaN (0/0), for which every comparison is false.  *)

\* Faulty variant: the intersection is not subtracted from the union.
calculateIoUDoubleCounted(bbox1, bbox2) ==
    LET x1 == bbox1[1]  y1 == bbox1[2]  w1 == bbox1[3]  h1 == bbox1[4]
        x2 == bbox2[1]  y2 == bbox2[2]  w2 == bbox2[3]  h2 == bbox2[4]
        xLeft == Max(x1, x2)
        yTop == Max(y1, y2)
        xRight == Min(x1 + w1, x2 + w2)
        yBottom == Min(y1 + h1, y2 + h2)
        intersectionArea == (xRight - xLeft) * (yBottom - yTop)
    IN  IF xRight < xLeft \/ yBottom < yTop
        THEN [num |-> 0, den |-> 1]
        ELSE [num |-> intersectionArea, den |-> w1 * h1 + w2 * h2]

calculateIoU(bbox1, bbox2) ==
    LET x1 == bbox1[1]  y1 == bbox1[2]  w1 == bbox1[3]  h1 == bbox1[4]
        x2 == bbox2[1]  y2 == bbox2[2]  w2 == bbox2[3]  h2 == bbox2[4]
        xLeft == Max(x1, x2)
        yTop == Max(y1, y2)
        xRight == Min(x1 + w1, x2 + w2)
        yBottom == Min(y1 + h1, y2 + h2)
        intersectionArea == (xRight - xLeft) * (yBottom - yTop)
        unionArea == w1 * h1 + w2 * h2 - intersectionArea
    IN  IF xRight < xLeft \/ yBottom < yTop
        THEN [num |-> 0, den |-> 1]
        ELSE [num |-> intersectionArea, den |-> unionArea]

\* iou > n/d for a literal threshold n/d.
IoUAbove(iou, n, d) == iou.den > 0 /\ iou.num * d > n * iou.den

\* a > b for two IoU values.
IoUGreater(a, b) == a.den > 0 /\ b.den > 0 /\ a.num * b.den > b.num * a.den

----------------------------------------------------------------------------
(* removeOverlappingDetections: stable sort by score descending, then      *)
(* greedy suppression at IoU > 0.3.                                        *)

\* Faulty variant: the sort is not stable, equal scores change places.
RECURSIVE InsertByScoreUnstable(_, _)
InsertByScoreUnstable(sorted, d) ==
    IF sorted = << >> THEN << d >>
    ELSE IF Head(sorted).score > d.score
         THEN << Head(sorted) >> \o InsertByScoreUnstable(Tail(sorted), d)
         ELSE << d >> \o sorted

RECURSIVE InsertByScore(_, _)
InsertByScore(sorted, d) ==
    IF sorted = << >> THEN << d >>
    ELSE IF Head(sorted).score >= d.score
         THEN << Head(sorted) >> \o InsertByScore(Tail(sorted), d)
         ELSE << d >> \o sorted

RECURSIVE SortByScoreDesc(_)
SortByScoreDesc(ds) ==
    IF ds = << >> THEN << >>
    ELSE InsertByScore(SortByScoreDesc(SubSeq(ds, 1, Len(ds) - 1)), ds[Len(ds)])

\* Faulty variant: the suppression threshold is 0.5.
RECURSIVE KeepNonOverlappingAtHalf(_, _)
KeepNonOverlappingAtHalf(sorted, filtered) ==
    IF sorted = << >> THEN filtered
    ELSE LET detection == Head(sorted)
             isOverlapping ==
                 \E i \in 1..Len(filtered) :
                     IoUAbove(calculateIoU(detection.bbox, filtered[i].bbox), 5, 10)
         IN  KeepNonOverlappingAtHalf(Tail(sorted),
                 IF isOverlapping THEN filtered ELSE Append(filtered, detection))

\* Faulty variant: only a kept candidate of the same label suppresses.
RECURSIVE KeepNonOverlappingSameLabel(_, _)
KeepNonOverlappingSameLabel(sorted, filtered) ==
    IF sorted = << >> THEN filtered
    ELSE LET detection == Head(sorted)
             isOverlapping ==
                 \E i \in 1..Len(filtered) :
                     /\ filtered[i].class = detection.class
                     /\ IoUAbove(calculateIoU(detection.bbox, filtered[i].bbox), 3, 10)
         IN  KeepNonOverlappingSameLabel(Tail(sorted),
                 IF isOverlapping THEN filtered ELSE Append(filtered, detection))

RECURSIVE KeepNonOverlapping(_, _)
KeepNonOverlapping(sorted, filtered) ==
    IF sorted = << >> THEN filtered
    ELSE LET detection == Head(sorted)
             isOverlapping ==
                 \E i \in 1..Len(filtered) :
                     IoUAbove(calculateIoU(detection.bbox, filtered[i].bbox), 3, 10)
         IN  KeepNonOverlapping(Tail(sorted),
                 IF isOverlapping THEN filtered ELSE Append(filtered, detection))

removeOverlappingDetections(ds) == KeepNonOverlapping(SortByScoreDesc(ds), << >>)

\* The argument array after the call: the sort works on the copy [...detections].
DetectionsAfterCall(ds) == ds

----------------------------------------------------------------------------
(* The candidate builder: predictions.filter(...).map(...).                *)

KnownHeight(class) ==
    LET c == ToLowerCase(class)
    IN  IF c \in DOMAIN KNOWN_HEIGHTS THEN KNOWN_HEIGHTS[c] ELSE DEFAULT_HEIGHT

\* Faulty variant: the fallback height is used for every label.
EstimateDistanceFallbackOnly(class, height) ==
    IF height = 0 THEN DISTANCE_MAX
    ELSE IF height < 0 THEN DISTANCE_MIN
    ELSE Max(DISTANCE_MIN,
             Min(DISTANCE_MAX, RoundDiv(DEFAULT_HEIGHT * FOCAL_CONSTANT, height)))

\* Faulty variant: the estimate is not raised to DISTANCE_MIN.
EstimateDistanceNoFloor(class, height) ==
    IF height = 0 THEN DISTANCE_MAX
    ELSE IF height < 0 THEN DISTANCE_MIN
    ELSE Min(DISTANCE_MAX, RoundDiv(KnownHeight(class) * FOCAL_CONSTANT, height))

\* Faulty variant: the estimate is not lowered to DISTANCE_MAX.
EstimateDistanceNoCeiling(class, height) ==
    IF height = 0 THEN DISTANCE_MAX
    ELSE IF height < 0 THEN DISTANCE_MIN
    ELSE Max(DISTANCE_MIN, RoundDiv(KnownHeight(class) * FOCAL_CONSTANT, height))

\* Math.max(0.3, Math.min(10, knownHeight * 600 / height)), in millimetres
\* (a height of 0 gives Infinity, a negative height a negative quotient).
EstimateDistance(class, height) ==
    IF height = 0 THEN DISTANCE_MAX
    ELSE IF height < 0 THEN DISTANCE_MIN
    ELSE Max(DISTANCE_MIN,
             Min(DISTANCE_MAX, RoundDiv(KnownHeight(class) * FOCAL_CONSTANT, height)))

\* Faulty variant: a centre on a threshold belongs to the outer zone.
PositionBoundaryOutside(bbox, canvasWidth) ==
    LET twiceCenterX == 2 * bbox[1] + bbox[3]
    IN  IF twiceCenterX * 100 <= 70 * canvasWidth THEN "left"
        ELSE IF twiceCenterX * 100 >= 130 * canvasWidth THEN "right"
        ELSE "center"

\* centerX < w * 0.35 ? 'left' : centerX > w * 0.65 ? 'right' : 'center',
\* with centerX = x + width / 2.
Position(bbox, canvasWidth) ==
    LET twiceCenterX == 2 * bbox[1] + bbox[3]
    IN  IF twiceCenterX * 100 < 70 * canvasWidth THEN "left"
        ELSE IF twiceCenterX * 100 > 130 * canvasWidth THEN "right"
        ELSE "center"

PassesFilter(p) ==
    p.score > SCORE_THRESHOLD /\ ToLowerCase(p.class) \notin FILTERED_CLASSES

ToCandidate(p, canvasWidth) ==
    [class |-> p.class, score |-> p.score, bbox |-> p.bbox,
     distance |-> EstimateDistance(p.class, p.bbox[4]),
     position |-> Position(p.bbox, canvasWidth)]

BuildCandidates(predictions, canvasWidth) ==
    LET kept == SelectSeq(predictions, PassesFilter)
    IN  [i \in 1..Len(kept) |-> ToCandidate(kept[i], canvasWidth)]

----------------------------------------------------------------------------
(* estimateDistance of src/utils/distance.ts.                              *)

FOCAL_LENGTH_REFERENCE == 600
LEGACY_DEFAULT_HEIGHT == 1000
LEGACY_DISTANCE_MIN == 500
LEGACY_DISTANCE_MAX == 10000

\* The entries of KNOWN_OBJECT_HEIGHTS the model's labels use, in millimetres.
KNOWN_OBJECT_HEIGHTS == [bottle |-> 250, cup |-> 120, chair |-> 900]

estimateDistance(objectClass, boundingBoxHeight, imageHeight) ==
    LET c == ToLowerCase(objectClass)
        knownHeight == IF c \in DOMAIN KNOWN_OBJECT_HEIGHTS
                       THEN KNOWN_OBJECT_HEIGHTS[c] ELSE LEGACY_DEFAULT_HEIGHT
        pixelHeight == boundingBoxHeight
    IN  IF pixelHeight <= 0 THEN LEGACY_DISTANCE_MAX
        ELSE Max(LEGACY_DISTANCE_MIN,
                 Min(LEGACY_DISTANCE_MAX,
                     RoundDiv(knownHeight * FOCAL_LENGTH_REFERENCE, pixelHeight)))

\* getDirection; boxCenterX is given in half pixels.  normalizedX is the
\* fraction boxCenterX / (2 * imageWidth), compared with 35/100 and 65/100.
getDirection(boxCenterX, imageWidth) ==
    LET normalizedX == [num |-> boxCenterX, den |-> 2 * imageWidth]
    IN  IF normalizedX.num * 100 < 35 * normalizedX.den THEN "left"
        ELSE IF normalizedX.num * 100 > 65 * normalizedX.den THEN "right"
        ELSE "center"

----------------------------------------------------------------------------
(* The legacy component kept in utils/distance.ts (lines 166-787): its     *)
(* candidate builder and its announcer.                                    *)

LEGACY_SCORE_THRESHOLD == 40
LEGACY_COOLDOWN_MS == 3000

\* The entries of the legacy KNOWN_HEIGHTS the model's labels use, in mm.
LEGACY_KNOWN_HEIGHTS == [bottle |-> 250, cup |-> 120]

LegacyLabels == DOMAIN LEGACY_KNOWN_HEIGHTS

\* Math.max(0.3, Math.min(10, knownHeight * 600 / height)) for height > 0.
LegacyDistance(class, height) ==
    Max(DISTANCE_MIN,
        Min(DISTANCE_MAX,
            RoundDiv((IF ToLowerCase(class) \in DOMAIN LEGACY_KNOWN_HEIGHTS
                      THEN LEGACY_KNOWN_HEIGHTS[ToLowerCase(class)] ELSE DEFAULT_HEIGHT)
                         * FOCAL_CONSTANT, height)))

\* predictions.filter(p => p.score > 0.4).map(...)
LegacyCandidates(predictions) ==
    LET kept == SelectSeq(predictions, LAMBDA p : p.score > LEGACY_SCORE_THRESHOLD)
    IN  [i \in 1..Len(kept) |->
            [class |-> kept[i].class, score |-> kept[i].score, bbox |-> kept[i].bbox,
             distance |-> LegacyDistance(kept[i].class, kept[i].bbox[4])]]

\* detectedObjects[0] after .sort((a, b) => a.distance - b.distance): the
\* first of the candidates at the least distance (the sort is stable).
LegacyNearest(candidates) ==
    candidates[CHOOSE i \in 1..Len(candidates) :
                   \A j \in 1..Len(candidates) :
                       \/ candidates[i].distance < candidates[j].distance
                       \/ candidates[i].distance = candidates[j].distance /\ i <= j]

\* The legacy announceDetection speaks: seen is the lastAnnouncement object
\* in the closure of the callback, `seen[key] || 0` its entry.
LegacyAnnounceSpeaks(detection, forceAnnounce, seen, currentTime) ==
    forceAnnounce \/ ~(currentTime - seen[detection.class] < LEGACY_COOLDOWN_MS)

\* Date.now() when the legacy session starts, in the model's milliseconds.
LegacyStart == 5000

\* The legacy component after its first render in active mode.
NoLegacy ==
    [model |-> FALSE, isDetecting |-> FALSE,
     lastAnnouncement |-> [l \in LegacyLabels |-> 0],
     \* the lastAnnouncement the current announceDetection closes over
     announceSees |-> [l \in LegacyLabels |-> 0],
     \* the [model, isDetecting] detectObjects was memoized for
     detectDeps |-> << FALSE, FALSE >>,
     \* the lastAnnouncement of the announceDetection detectObjects closes over
     detectSees |-> [l \in LegacyLabels |-> 0],
     renderPending |-> FALSE,
     clock |-> LegacyStart, ticks |-> 0, spoken |-> << >>]

----------------------------------------------------------------------------
(* The track map.  A JavaScript Map iterates in insertion order; set() on  *)
(* an existing key keeps the key's place.  Entries are [key, val].         *)

MapKeys(m) == { m[i].key : i \in 1..Len(m) }
MapHas(m, k) == k \in MapKeys(m)
MapIndex(m, k) == CHOOSE i \in 1..Len(m) : m[i].key = k
MapGet(m, k) == m[MapIndex(m, k)].val
MapSet(m, k, v) ==
    IF MapHas(m, k)
    THEN [m EXCEPT ![MapIndex(m, k)] = [key |-> k, val |-> v]]
    ELSE Append(m, [key |-> k, val |-> v])

\* `${class}_${Math.floor(bbox[0])}_${currentTime}`; x is a whole pixel.
NewTrackId(class, x, currentTime) == << class, x, currentTime >>

\* `${class}_${Math.floor(smoothedBbox[0])}`, used when a track has no id.
FallbackId(t) == << t.class, t.smoothedBbox[1] >>

NoId == << >>

----------------------------------------------------------------------------
(* The tracker pass of detectObjects.                                      *)

\* Faulty variant: a later track with an equal IoU replaces the best match.
RECURSIVE BestMatchFromLastWins(_, _, _, _, _)
BestMatchFromLastWins(m, detection, i, bestMatch, bestIoU) ==
    IF i > Len(m) THEN bestMatch
    ELSE LET tracked == m[i].val
             iou == calculateIoU(detection.bbox, tracked.smoothedBbox)
         IN  IF tracked.class = detection.class
                /\ IoUAbove(iou, 2, 10) /\ ~IoUGreater(bestIoU, iou)
             THEN BestMatchFromLastWins(m, detection, i + 1, i, iou)
             ELSE BestMatchFromLastWins(m, detection, i + 1, bestMatch, bestIoU)

\* The inner loop over trackedMap.entries(): the index of bestMatch, 0 for null.
RECURSIVE BestMatchFrom(_, _, _, _, _)
BestMatchFrom(m, detection, i, bestMatch, bestIoU) ==
    IF i > Len(m) THEN bestMatch
    ELSE LET tracked == m[i].val
             iou == calculateIoU(detection.bbox, tracked.smoothedBbox)
         IN  IF tracked.class = detection.class
                /\ IoUAbove(iou, 2, 10) /\ IoUGreater(iou, bestIoU)
             THEN BestMatchFrom(m, detection, i + 1, i, iou)
             ELSE BestMatchFrom(m, detection, i + 1, bestMatch, bestIoU)

\* Faulty variant: the labels of the track and the candidate are not compared.
RECURSIVE BestMatchFromAnyLabel(_, _, _, _, _)
BestMatchFromAnyLabel(m, detection, i, bestMatch, bestIoU) ==
    IF i > Len(m) THEN bestMatch
    ELSE LET iou == calculateIoU(detection.bbox, m[i].val.smoothedBbox)
         IN  IF IoUAbove(iou, 2, 10) /\ IoUGreater(iou, bestIoU)
             THEN BestMatchFromAnyLabel(m, detection, i + 1, i, iou)
             ELSE BestMatchFromAnyLabel(m, detection, i + 1, bestMatch, bestIoU)

BestMatchAnyLabel(m, detection) ==
    BestMatchFromAnyLabel(m, detection, 1, 0, [num |-> 0, den |-> 1])

BestMatch(m, detection) == BestMatchFrom(m, detection, 1, 0, [num |-> 0, den |-> 1])

\* Faulty variant: the weights of the new and the old value are exchanged.
SmoothSwapped(new, old) ==
    RoundDiv((ALPHA_SCALE - SMOOTHING_ALPHA) * new + SMOOTHING_ALPHA * old, ALPHA_SCALE)

\* SMOOTHING_ALPHA * new + (1 - SMOOTHING_ALPHA) * old
Smooth(new, old) ==
    RoundDiv(SMOOTHING_ALPHA * new + (ALPHA_SCALE - SMOOTHING_ALPHA) * old, ALPHA_SCALE)

\* Faulty variant: the id is recomputed from the smoothed box on every update.
PreservedIdRecomputed(bestMatch) == FallbackId(bestMatch)

\* bestMatch.id || `${class}_${floor(smoothedBbox[0])}`
PreservedId(bestMatch) == IF bestMatch.id # NoId THEN bestMatch.id ELSE FallbackId(bestMatch)

\* The in-place update of a matched track.
UpdateTracked(bestMatch, detection, currentTime) ==
    LET smoothedDistance == Smooth(detection.distance, bestMatch.smoothedDistance)
        smoothedBbox == [i \in 1..4 |-> Smooth(detection.bbox[i], bestMatch.smoothedBbox[i])]
    IN  [bestMatch EXCEPT
            !.frameCount = @ + 1,
            !.lastSeen = currentTime,
            !.score = detection.score,
            !.id = PreservedId(bestMatch),
            !.smoothedDistance = smoothedDistance,
            !.smoothedBbox = smoothedBbox,
            !.bbox = smoothedBbox,
            !.distance = smoothedDistance,
            !.position = detection.position]

\* The object a new track starts as.
CreateTracked(detection, currentTime) ==
    [class |-> detection.class, score |-> detection.score, bbox |-> detection.bbox,
     distance |-> detection.distance, position |-> detection.position,
     id |-> NewTrackId(detection.class, detection.bbox[1], currentTime),
     frameCount |-> 1, lastSeen |-> currentTime,
     smoothedDistance |-> detection.distance, smoothedBbox |-> detection.bbox]

\* One iteration of `for (const detection of rawDetections)`.  st is
\* [map, updatedIds, created, matched, overwrote, steps]; steps records, for
\* each candidate, the map before and after its iteration.
MatchOne(st, detection, currentTime) ==
    LET best == BestMatch(st.map, detection)
    IN  IF best # 0
        THEN LET tracked == UpdateTracked(st.map[best].val, detection, currentTime)
                 \* bestMatch is mutated in place, then set under its id
                 inPlace == [st.map EXCEPT ![best].val = tracked]
             IN  [st EXCEPT !.map = MapSet(inPlace, tracked.id, tracked),
                            !.updatedIds = @ \cup {tracked.id},
                            !.matched = Append(@, st.map[best].key),
                            !.steps = Append(@, [kind |-> "update",
                                                 detection |-> detection,
                                                 pool |-> st.map,
                                                 key |-> st.map[best].key,
                                                 result |-> MapSet(inPlace, tracked.id, tracked)])]
        ELSE LET tracked == CreateTracked(detection, currentTime)
             IN  [st EXCEPT !.map = MapSet(st.map, tracked.id, tracked),
                            !.updatedIds = @ \cup {tracked.id},
                            !.created = Append(@, tracked.id),
                            !.overwrote = @ \cup (IF MapHas(st.map, tracked.id)
                                                   THEN {tracked.id} ELSE {}),
                            !.steps = Append(@, [kind |-> "create",
                                                 detection |-> detection,
                                                 pool |-> st.map,
                                                 key |-> tracked.id,
                                                 result |-> MapSet(st.map, tracked.id, tracked)])]

RECURSIVE MatchAll(_, _, _)
MatchAll(st, rawDetections, currentTime) ==
    IF rawDetections = << >> THEN st
    ELSE MatchAll(MatchOne(st, Head(rawDetections), currentTime),
                  Tail(rawDetections), currentTime)

\* Faulty variant: the sweep deletes at an age of exactly MAX_TRACKING_AGE_MS too.
StaleIdsInclusive(m, updatedIds, currentTime) ==
    { m[i].key : i \in { j \in 1..Len(m) :
          m[j].key \notin updatedIds
          /\ currentTime - m[j].val.lastSeen >= MAX_TRACKING_AGE_MS } }

\* The keys the stale sweep deletes.
StaleIds(m, updatedIds, currentTime) ==
    { m[i].key : i \in { j \in 1..Len(m) :
          m[j].key \notin updatedIds
          /\ currentTime - m[j].val.lastSeen > MAX_TRACKING_AGE_MS } }

\* Faulty variant: the sweep deletes every track no candidate matched.
StaleSweepDroppingUnmatched(m, updatedIds, currentTime) ==
    SelectSeq(m, LAMBDA e : e.key \in updatedIds)

\* Faulty variant: the sweep restarts the frame count of the unmatched tracks it keeps.
StaleSweepResetting(m, updatedIds, currentTime) ==
    LET stale == StaleIds(m, updatedIds, currentTime)
        kept == SelectSeq(m, LAMBDA e : e.key \notin stale)
    IN  [i \in 1..Len(kept) |->
            IF kept[i].key \in updatedIds THEN kept[i]
            ELSE [kept[i] EXCEPT !.val.frameCount = 1]]

StaleSweep(m, updatedIds, currentTime) ==
    LET stale == StaleIds(m, updatedIds, currentTime)
    IN  SelectSeq(m, LAMBDA e : e.key \notin stale)

----------------------------------------------------------------------------
(* The stability filter and ranker.                                        *)

\* Faulty variant: three frames are enough.
IsStableAfterThree(tracked, currentTime) ==
    /\ tracked.frameCount >= 3
    /\ currentTime - tracked.lastSeen <= MAX_TRACKING_AGE_MS
    /\ tracked.smoothedDistance <= MAX_DETECTION_DISTANCE

IsStable(tracked, currentTime) ==
    /\ tracked.frameCount >= MIN_FRAMES_FOR_STABILITY
    /\ currentTime - tracked.lastSeen <= MAX_TRACKING_AGE_MS
    /\ tracked.smoothedDistance <= MAX_DETECTION_DISTANCE

RECURSIVE InsertByDistance(_, _)
InsertByDistance(sorted, t) ==
    IF sorted = << >> THEN << t >>
    ELSE IF Head(sorted).smoothedDistance <= t.smoothedDistance
         THEN << Head(sorted) >> \o InsertByDistance(Tail(sorted), t)
         ELSE << t >> \o sorted

RECURSIVE SortByDistanceAsc(_)
SortByDistanceAsc(ts) ==
    IF ts = << >> THEN << >>
    ELSE InsertByDistance(SortByDistanceAsc(SubSeq(ts, 1, Len(ts) - 1)), ts[Len(ts)])

\* Faulty variant: the list is cut to MAX_DISPLAY_OBJECTS before it is sorted.
StableDetectionsCutFirst(m, currentTime) ==
    LET values == [i \in 1..Len(m) |-> m[i].val]
        stable == SelectSeq(values, LAMBDA t : IsStable(t, currentTime))
    IN  SortByDistanceAsc(SubSeq(stable, 1, Min(Len(stable), MAX_DISPLAY_OBJECTS)))

StableDetections(m, currentTime) ==
    LET values == [i \in 1..Len(m) |-> m[i].val]
        stable == SelectSeq(values, LAMBDA t : IsStable(t, currentTime))
        sorted == SortByDistanceAsc(stable)
    IN  SubSeq(sorted, 1, Min(Len(sorted), MAX_DISPLAY_OBJECTS))

----------------------------------------------------------------------------
(* announceDetection.                                                      *)

\* The wording chosen by distance band.
AnnouncementText(detection) ==
    [class |-> detection.class,
     band |-> IF detection.distance < 500 THEN "within reach"
              ELSE IF detection.distance < 1000 THEN "centimeters"
              ELSE IF detection.distance < 2000 THEN "meters"
              ELSE "about meters",
     position |-> IF detection.distance >= 500 /\ detection.distance < 2000
                  THEN detection.position ELSE "none"]

\* Faulty variant: the announced set is not consulted.
AnnounceSuppressedNoRecordCheck(detection, forceAnnounce, announced) ==
    \/ detection.id = NoId
    \/ ~forceAnnounce /\ detection.distance > MAX_ANNOUNCE_DISTANCE

\* TRUE when announceDetection returns early without speaking.
AnnounceSuppressed(detection, forceAnnounce, announced) ==
    \/ detection.id = NoId
    \/ ~forceAnnounce /\ detection.distance > MAX_ANNOUNCE_DISTANCE
    \/ ~forceAnnounce /\ detection.id \in announced

\* Faulty variant: the object is spoken but not marked as announced.
announceDetectionNoMark(detection, forceAnnounce, announced, currentTime) ==
    IF AnnounceSuppressed(detection, forceAnnounce, announced)
    THEN [announced |-> announced, said |-> << >>]
    ELSE [announced |-> announced,
          said |-> << [id |-> detection.id, time |-> currentTime,
                       text |-> AnnouncementText(detection)] >>]

\* Faulty variant: the object is marked as announced before the early returns.
announceDetectionMarkingFirst(detection, forceAnnounce, announced, currentTime) ==
    IF AnnounceSuppressed(detection, forceAnnounce, announced)
    THEN [announced |-> announced \cup {detection.id}, said |-> << >>]
    ELSE [announced |-> announced \cup {detection.id},
          said |-> << [id |-> detection.id, time |-> currentTime,
                       text |-> AnnouncementText(detection)] >>]

\* The result of announceDetection: the announced set and what was spoken.
announceDetection(detection, forceAnnounce, announced, currentTime) ==
    IF AnnounceSuppressed(detection, forceAnnounce, announced)
    THEN [announced |-> announced, said |-> << >>]
    ELSE [announced |-> announced \cup {detection.id},
          said |-> << [id |-> detection.id, time |-> currentTime,
                       text |-> AnnouncementText(detection)] >>]

----------------------------------------------------------------------------
(* The body of detectObjects after `await model.detect(canvas)` resolved   *)
(* with predictions, run at Date.now() = currentTime.  Each stage takes    *)
(* the result of the one before it.                                        *)

\* Candidate builder, overlap removal and the matching loop.
TrackerPass(predictions, currentTime, canvasWidth, m) ==
    MatchAll([map |-> m, updatedIds |-> {}, created |-> << >>,
              matched |-> << >>, overwrote |-> {}, steps |-> << >>],
             removeOverlappingDetections(BuildCandidates(predictions, canvasWidth)),
             currentTime)

\* The stale sweep over Array.from(trackedMap.entries()).
Sweep(st, currentTime) ==
    [map |-> StaleSweep(st.map, st.updatedIds, currentTime),
     removed |-> StaleIds(st.map, st.updatedIds, currentTime),
     removedSeen |-> [k \in StaleIds(st.map, st.updatedIds, currentTime) |->
                         MapGet(st.map, k).lastSeen],
     created |-> st.created, matched |-> st.matched, overwrote |-> st.overwrote,
     steps |-> st.steps]

\* The stable filter, sort and slice.
Rank(sw, currentTime) ==
    [map |-> sw.map, removed |-> sw.removed, removedSeen |-> sw.removedSeen,
     created |-> sw.created,
     matched |-> sw.matched, overwrote |-> sw.overwrote, steps |-> sw.steps,
     stable |-> StableDetections(sw.map, currentTime)]

\* Faulty variant: the call is made for the nearest confirmed track that has
\* not been announced yet.
AnnounceNearestUnannounced(stableDetections, announced, currentTime) ==
    LET fresh == { i \in 1..Len(stableDetections) : stableDetections[i].id \notin announced }
    IN  IF fresh # {}
        THEN announceDetection(stableDetections[CHOOSE i \in fresh : \A j \in fresh : i <= j],
                               FALSE, announced, currentTime)
        ELSE [announced |-> announced, said |-> << >>]

\* if (stableDetections.length > 0) announceDetection(stableDetections[0], false)
AnnounceNearest(stableDetections, announced, currentTime) ==
    IF Len(stableDetections) > 0
    THEN announceDetection(stableDetections[1], FALSE, announced, currentTime)
    ELSE [announced |-> announced, said |-> << >>]

Announce(rk, ann) ==
    [map |-> rk.map, removed |-> rk.removed, removedSeen |-> rk.removedSeen,
     created |-> rk.created,
     matched |-> rk.matched, overwrote |-> rk.overwrote, steps |-> rk.steps,
     stable |-> rk.stable,
     announced |-> ann.announced, said |-> ann.said]

\* Faulty variant: the sweep leaves the announced set alone.
GateStageKeepingRecords(rk, announced, currentTime) ==
    Announce(rk, AnnounceNearest(rk.stable, announced, currentTime))

\* announcedObjectsRef.current.delete(id) for the swept ids, then the announce call.
GateStage(rk, announced, currentTime) ==
    Announce(rk, AnnounceNearest(rk.stable, announced \ rk.removed, currentTime))

ProcessFrame(predictions, currentTime, canvasWidth, m, announced) ==
    GateStage(Rank(Sweep(TrackerPass(predictions, currentTime, canvasWidth, m),
                         currentTime),
                   currentTime),
              announced, currentTime)

----------------------------------------------------------------------------
(* The environment: what the detector returns, how the clock advances,     *)
(* the size of the video frame.                                            *)

BottleA == [class |-> "bottle", score |-> 80, bbox |-> << 100, 100, 50, 200 >>]
BottleB == [class |-> "bottle", score |-> 70, bbox |-> << 100, 320, 50, 100 >>]
CupLeft == [class |-> "cup", score |-> 90, bbox |-> << 0, 100, 400, 50 >>]
CupRight == [class |-> "cup", score |-> 90, bbox |-> << 220, 100, 400, 50 >>]

\* The frames model.detect may resolve with.
Frames == { << >>, << BottleA, BottleB >>, << CupLeft >>, << CupRight >> }

\* The milliseconds between the Date.now() of two processed ticks.
Steps == { 600, 601 }

\* video.videoWidth
CanvasWidths == { 640 }

\* requestAnimationFrame is called at most MaxRaf times.
MaxRaf == 7

----------------------------------------------------------------------------
(* The component: state, effects, the animation-frame loop.                *)

NoTick == [time |-> 0, predictions |-> << >>, created |-> << >>,
           matched |-> << >>, overwrote |-> {}, removed |-> {}, removedSeen |-> << >>,
           steps |-> << >>, held |-> << >>, threw |-> FALSE]

Deps == [mode |-> mode, model |-> model, isDetecting |-> isDetecting]

\* No function is called directly.
NoCall == [op |-> "none", args |-> << >>, done |-> FALSE, result |-> << >>]

InitComponent ==
    /\ mounted = TRUE
    /\ mode = "intro"
    /\ model = FALSE
    /\ isDetecting = FALSE
    /\ loadState = "none"
    /\ camState = "off"
    /\ streamRef = FALSE
    /\ committed = [mode |-> "intro", model |-> FALSE, isDetecting |-> FALSE]
    /\ animationRef = 0
    /\ rafQueue = {}
    /\ nextRaf = 1
    /\ pendingDetect = 0
    /\ now = 0
    /\ trackedDetections = << >>
    /\ announcedObjects = {}
    /\ detections = << >>
    /\ detectionCount = 0
    /\ spoken = << >>
    /\ lastTick = NoTick
    /\ legacy = NoLegacy

Init == InitComponent /\ call = NoCall

\* cancelAnimationFrame(animationRef.current), guarded by `if (animationRef.current)`.
CancelCurrent(queue, ref) == IF ref # 0 THEN queue \ {ref} ELSE queue

\* handleDoubleTap, second tap: setMode('active').
DoubleTap ==
    /\ mounted /\ mode = "intro"
    /\ mode' = "active"
    /\ UNCHANGED << mounted, model, isDetecting, loadState, camState, streamRef, committed,
                    animationRef, rafQueue, nextRaf, pendingDetect >>
    /\ UNCHANGED trackVars

\* Faulty variant: the loop effect does not wait for isDetecting.
CommitEffectsLoopBeforeVideo ==
    /\ mounted /\ committed # Deps
    /\ LET camChanged == committed.mode # mode \/ committed.model # model
           startLoop == mode = "active" /\ model
           \* cleanups: camera effect, then loop effect
           cancelled == CancelCurrent(rafQueue, animationRef)
       IN  /\ committed' = Deps
           /\ loadState' = IF camChanged /\ mode = "active" /\ ~model THEN "loading" ELSE loadState
           /\ camState' = IF camChanged /\ mode = "active" /\ model THEN "requesting" ELSE camState
           /\ streamRef' = IF camChanged THEN FALSE ELSE streamRef
           /\ trackedDetections' = IF camChanged THEN << >> ELSE trackedDetections
           /\ announcedObjects' = IF camChanged THEN {} ELSE announcedObjects
           /\ IF startLoop
              THEN /\ animationRef' = nextRaf
                   /\ rafQueue' = cancelled \cup {nextRaf}
                   /\ nextRaf' = nextRaf + 1
              ELSE /\ rafQueue' = cancelled
                   /\ UNCHANGED << animationRef, nextRaf >>
    /\ UNCHANGED << mounted, mode, model, isDetecting, pendingDetect, now, detections,
                    detectionCount, spoken, lastTick, call, legacy >>

\* The re-render after a state change: the cleanups of the effects whose
\* dependencies changed, then their setups.
\*   model-load effect  [mode, model]
\*   camera effect      [mode, model, startCamera]
\*   loop effect        [mode, model, isDetecting, detectObjects]
CommitEffects ==
    /\ mounted /\ committed # Deps
    /\ LET camChanged == committed.mode # mode \/ committed.model # model
           startLoop == mode = "active" /\ model /\ isDetecting
           \* cleanups: camera effect, then loop effect
           cancelled == CancelCurrent(rafQueue, animationRef)
       IN  /\ committed' = Deps
           /\ loadState' = IF camChanged /\ mode = "active" /\ ~model THEN "loading" ELSE loadState
           /\ camState' = IF camChanged /\ mode = "active" /\ model THEN "requesting" ELSE camState
           /\ streamRef' = IF camChanged THEN FALSE ELSE streamRef
           /\ trackedDetections' = IF camChanged THEN << >> ELSE trackedDetections
           /\ announcedObjects' = IF camChanged THEN {} ELSE announcedObjects
           /\ IF startLoop
              THEN /\ animationRef' = nextRaf
                   /\ rafQueue' = cancelled \cup {nextRaf}
                   /\ nextRaf' = nextRaf + 1
              ELSE /\ rafQueue' = cancelled
                   /\ UNCHANGED << animationRef, nextRaf >>
    /\ UNCHANGED << mounted, mode, model, isDetecting, pendingDetect, now, detections,
                    detectionCount, spoken, lastTick, call, legacy >>

\* loadModel() resolves: setModel(loadedModel).
ModelLoaded ==
    /\ loadState = "loading"
    /\ loadState' = "none"
    /\ model' = IF mounted THEN TRUE ELSE model
    /\ UNCHANGED << mounted, mode, isDetecting, camState, streamRef, committed,
                    animationRef, rafQueue, nextRaf, pendingDetect >>
    /\ UNCHANGED trackVars

\* loadModel() throws: the catch sets the error, model stays null.
ModelLoadFailed ==
    /\ loadState = "loading"
    /\ loadState' = "failed"
    /\ UNCHANGED << mounted, mode, model, isDetecting, camState, streamRef, committed,
                    animationRef, rafQueue, nextRaf, pendingDetect >>
    /\ UNCHANGED trackVars

\* startCamera: getUserMedia resolves; the stream is kept and, when the video
\* element exists, onloadedmetadata is installed.
CameraGranted ==
    /\ camState = "requesting"
    /\ streamRef' = TRUE
    /\ camState' = IF mounted THEN "metadata" ELSE "off"
    /\ UNCHANGED << mounted, mode, model, isDetecting, loadState, committed,
                    animationRef, rafQueue, nextRaf, pendingDetect >>
    /\ UNCHANGED trackVars

\* startCamera: getUserMedia rejects (permission denied shows "Try Again").
CameraDenied ==
    /\ camState = "requesting"
    /\ camState' = "denied"
    /\ UNCHANGED << mounted, mode, model, isDetecting, loadState, streamRef, committed,
                    animationRef, rafQueue, nextRaf, pendingDetect >>
    /\ UNCHANGED trackVars

\* The "Try Again" button: onClick={startCamera}.
TryAgain ==
    /\ mounted /\ camState = "denied"
    /\ camState' = "requesting"
    /\ UNCHANGED << mounted, mode, model, isDetecting, loadState, streamRef, committed,
                    animationRef, rafQueue, nextRaf, pendingDetect >>
    /\ UNCHANGED trackVars

\* onloadedmetadata: play() resolves, setIsDetecting(true).
VideoPlaying ==
    /\ mounted /\ camState = "metadata"
    /\ camState' = "playing"
    /\ isDetecting' = TRUE
    /\ UNCHANGED << mounted, mode, model, loadState, streamRef, committed,
                    animationRef, rafQueue, nextRaf, pendingDetect >>
    /\ UNCHANGED trackVars

\* onloadedmetadata: play() rejects (or the video element is gone).
PlayFailed ==
    /\ camState = "metadata"
    /\ camState' = "failed"
    /\ UNCHANGED << mounted, mode, model, isDetecting, loadState, streamRef, committed,
                    animationRef, rafQueue, nextRaf, pendingDetect >>
    /\ UNCHANGED trackVars

\* The component unmounts: the cleanups of the camera effect and of the loop
\* effect run, and React detaches videoRef and canvasRef.
Unmount ==
    /\ mounted
    /\ mounted' = FALSE
    /\ streamRef' = FALSE
    /\ rafQueue' = CancelCurrent(rafQueue, animationRef)
    /\ announcedObjects' = {}
    /\ trackedDetections' = << >>
    /\ UNCHANGED << mode, model, isDetecting, loadState, camState, committed,
                    animationRef, nextRaf, pendingDetect, now, detections,
                    detectionCount, spoken, lastTick, call, legacy >>

\* animationRef.current = requestAnimationFrame(detectObjects)
Request ==
    /\ animationRef' = nextRaf
    /\ nextRaf' = nextRaf + 1

\* An animation frame runs detectObjects, which returns at one of its two
\* guards: the video or canvas element is gone, or the video is not playing
\* a frame.  It requests the next frame.
FrameSkipped(id) ==
    /\ id \in rafQueue
    /\ Request
    /\ rafQueue' = (rafQueue \ {id}) \cup {nextRaf}
    /\ UNCHANGED << pendingDetect >>
    /\ UNCHANGED ctlVars
    /\ UNCHANGED trackVars

\* Faulty variant: the next frame is requested before model.detect is awaited.
FrameDetectRequestingEarly(id) ==
    /\ id \in rafQueue
    /\ mounted
    /\ Request
    /\ rafQueue' = (rafQueue \ {id}) \cup {nextRaf}
    /\ pendingDetect' = pendingDetect + 1
    /\ UNCHANGED ctlVars
    /\ UNCHANGED trackVars

\* An animation frame runs detectObjects up to `await model.detect(canvas)`.
FrameDetect(id) ==
    /\ id \in rafQueue
    /\ mounted
    /\ rafQueue' = rafQueue \ {id}
    /\ pendingDetect' = pendingDetect + 1
    /\ UNCHANGED << animationRef, nextRaf >>
    /\ UNCHANGED ctlVars
    /\ UNCHANGED trackVars

\* The track map when the matching loop has ended.
MatchedMap(steps, m) == IF steps = << >> THEN m ELSE steps[Len(steps)].result

\* What a list of confirmed tracks reads as once the map is m: the list holds
\* the track objects themselves (Array.from(trackedMap.values()) filtered,
\* sorted and sliced), and a matched update writes into the object.
HeldList(list, m) ==
    [i \in 1..Len(list) |->
        IF MapHas(m, list[i].id) THEN MapGet(m, list[i].id) ELSE list[i]]

\* p.class.toLowerCase() throws a TypeError when a prediction has no label.
MissingLabel == "(undefined)"
BuilderThrows(predictions) ==
    \E i \in 1..Len(predictions) : predictions[i].class = MissingLabel

\* The tick ends in the catch block: the counter was incremented at line 325,
\* nothing else was done.
CaughtFrame(predictions) ==
    /\ detectionCount' = detectionCount + 1
    /\ lastTick' = [lastTick EXCEPT !.predictions = predictions, !.threw = TRUE]
    /\ UNCHANGED << now, trackedDetections, announcedObjects, detections, spoken, call, legacy >>

\* The assignments a processed tick makes, r being ProcessFrame's result.
ApplyFrame(r, predictions, currentTime) ==
    /\ now' = currentTime
    /\ detectionCount' = detectionCount + 1
    /\ trackedDetections' = r.map
    /\ announcedObjects' = r.announced
    /\ detections' = r.stable
    /\ spoken' = spoken \o r.said
    /\ lastTick' = [time |-> currentTime, predictions |-> predictions,
                    created |-> r.created, matched |-> r.matched,
                    overwrote |-> r.overwrote, removed |-> r.removed,
                    removedSeen |-> r.removedSeen, steps |-> r.steps,
                    held |-> HeldList(detections, MatchedMap(r.steps, trackedDetections)),
                    threw |-> FALSE]
    /\ UNCHANGED << call, legacy >>

\* model.detect resolves: the rest of detectObjects runs to its end.
DetectResolved(predictions, dt, canvasWidth) ==
    /\ pendingDetect > 0
    /\ Request
    /\ IF BuilderThrows(predictions)
       THEN CaughtFrame(predictions)
       ELSE ApplyFrame(ProcessFrame(predictions, now + dt, canvasWidth,
                                    trackedDetections, announcedObjects),
                       predictions, now + dt)
    /\ pendingDetect' = pendingDetect - 1
    /\ rafQueue' = rafQueue \cup {nextRaf}
    /\ UNCHANGED ctlVars

\* The tick ends in the catch block before line 325: nothing was done.
RejectedFrame ==
    /\ lastTick' = [lastTick EXCEPT !.threw = TRUE]
    /\ UNCHANGED << now, detectionCount, trackedDetections, announcedObjects,
                    detections, spoken, call, legacy >>

\* Faulty variant: the catch block returns without requesting the next frame.
DetectRejectedNoReschedule ==
    /\ pendingDetect > 0
    /\ RejectedFrame
    /\ pendingDetect' = pendingDetect - 1
    /\ UNCHANGED << animationRef, nextRaf, rafQueue >>
    /\ UNCHANGED ctlVars

\* model.detect rejects: the catch logs, and the next frame is requested.
DetectRejected ==
    /\ pendingDetect > 0
    /\ Request
    /\ RejectedFrame
    /\ pendingDetect' = pendingDetect - 1
    /\ rafQueue' = rafQueue \cup {nextRaf}
    /\ UNCHANGED ctlVars

\* The bound on the animation frames requested.
Within(bound) == nextRaf <= bound

Next ==
    \/ DoubleTap
    \/ Within(MaxRaf) /\ CommitEffects
    \/ ModelLoaded
    \/ ModelLoadFailed
    \/ CameraGranted
    \/ CameraDenied
    \/ TryAgain
    \/ VideoPlaying
    \/ PlayFailed
    \/ Unmount
    \/ Within(MaxRaf) /\ \E id \in rafQueue : FrameSkipped(id)
    \/ \E id \in rafQueue : FrameDetect(id)
    \/ Within(MaxRaf) /\ \E predictions \in Frames, dt \in Steps, canvasWidth \in CanvasWidths :
           DetectResolved(predictions, dt, canvasWidth)
    \/ Within(MaxRaf) /\ DetectRejected

Spec == Init /\ [][Next]_vars

----------------------------------------------------------------------------
(* The steady scene: the session starts without failure and the detector   *)
(* reports the same bottle on every tick; the first five ticks are 30 ms   *)
(* apart, later ticks 30 ms or 3000 ms.                                    *)

ScenarioFrame == << BottleA >>
ScenarioSteps == IF detectionCount < MIN_FRAMES_FOR_STABILITY THEN { 30 } ELSE { 30, 3000 }
MaxScenarioRaf == 16

NextScenario ==
    \/ DoubleTap
    \/ CommitEffects
    \/ ModelLoaded
    \/ CameraGranted
    \/ VideoPlaying
    \/ \E id \in rafQueue : FrameDetect(id)
    \/ Within(MaxScenarioRaf) /\ \E dt \in ScenarioSteps, canvasWidth \in CanvasWidths :
           DetectResolved(ScenarioFrame, dt, canvasWidth)

SpecScenario == Init /\ [][NextScenario]_vars

----------------------------------------------------------------------------
(* The shelf scene: the session starts without failure and the detector    *)
(* reports bottles and cups standing next to and on top of each other,     *)
(* 100 ms apart.                                                           *)

ShelfBottle1 == [class |-> "bottle", score |-> 90, bbox |-> << 0, 0, 30, 100 >>]
ShelfBottle2 == [class |-> "bottle", score |-> 80, bbox |-> << 30, 0, 30, 100 >>]
\* overlaps both bottles by the same amount (IoU 5/17 each), and is taller
ShelfBottleBetween == [class |-> "bottle", score |-> 70, bbox |-> << 15, 0, 30, 120 >>]
\* overlaps the second bottle more (IoU 3/7) than the first (IoU 1/4)
ShelfBottleNearer2 == [class |-> "bottle", score |-> 70, bbox |-> << 18, 0, 30, 100 >>]
\* the box of the first bottle, labelled cup
ShelfCup == [class |-> "cup", score |-> 90, bbox |-> << 0, 0, 30, 100 >>]
\* IoU with ShelfCup is 1000/5000, exactly 0.2
ShelfCupShifted == [class |-> "cup", score |-> 90, bbox |-> << 20, 0, 30, 100 >>]

ShelfFrames == { << ShelfBottle1, ShelfBottle2 >>, << ShelfBottleBetween >>,
                 << ShelfBottleNearer2 >>, << ShelfCup >>, << ShelfCupShifted >> }
ShelfSteps == { 100 }
MaxShelfRaf == 6

NextShelf ==
    \/ DoubleTap
    \/ CommitEffects
    \/ ModelLoaded
    \/ CameraGranted
    \/ VideoPlaying
    \/ \E id \in rafQueue : FrameDetect(id)
    \/ Within(MaxShelfRaf) /\ \E predictions \in ShelfFrames, dt \in ShelfSteps,
                                 canvasWidth \in CanvasWidths :
           DetectResolved(predictions, dt, canvasWidth)

SpecShelf == Init /\ [][NextShelf]_vars

----------------------------------------------------------------------------
(* removeOverlappingDetections called on lists of distinct candidates.     *)

\* A chain: each overlaps the next with IoU 0.5, the first and the third 0.2.
OverlapA == ToCandidate([class |-> "bottle", score |-> 90, bbox |-> << 0, 0, 30, 100 >>], 640)
OverlapB == ToCandidate([class |-> "bottle", score |-> 80, bbox |-> << 10, 0, 30, 100 >>], 640)
OverlapC == ToCandidate([class |-> "bottle", score |-> 70, bbox |-> << 20, 0, 30, 100 >>], 640)
\* the score of OverlapB, IoU 5/7 with OverlapA and OverlapB
OverlapD == ToCandidate([class |-> "bottle", score |-> 80, bbox |-> << 5, 0, 30, 100 >>], 640)
\* the box of OverlapB, labelled cup
OverlapE == ToCandidate([class |-> "cup", score |-> 85, bbox |-> << 10, 0, 30, 100 >>], 640)
\* apart from all the others
OverlapF == ToCandidate([class |-> "bottle", score |-> 60, bbox |-> << 200, 0, 30, 100 >>], 640)

OverlapPool == { OverlapA, OverlapB, OverlapC, OverlapD, OverlapE, OverlapF }
MaxCandidates == 3

\* The lists of at most n distinct elements of S.
DistinctSeqs(S, n) ==
    { q \in UNION { [1..k -> S] : k \in 0..n } :
        \A i, j \in 1..Len(q) : i # j => q[i] # q[j] }

InitOverlap ==
    /\ InitComponent
    /\ call \in { [op |-> "removeOverlappingDetections", args |-> ds,
                    done |-> FALSE, result |-> << >>] :
                      ds \in DistinctSeqs(OverlapPool, MaxCandidates) }

CallRemoveOverlapping ==
    /\ call.op = "removeOverlappingDetections" /\ ~call.done
    /\ call' = [call EXCEPT !.done = TRUE,
                            !.args = DetectionsAfterCall(call.args),
                            !.result = removeOverlappingDetections(call.args)]
    /\ UNCHANGED << animationRef, rafQueue, nextRaf, pendingDetect, now, trackedDetections,
                    announcedObjects, detections, detectionCount, spoken, lastTick, legacy >>
    /\ UNCHANGED ctlVars

NextOverlap == CallRemoveOverlapping

SpecOverlap == InitOverlap /\ [][NextOverlap]_vars

----------------------------------------------------------------------------
(* calculateIoU called on pairs of boxes of a small grid.                  *)

MaxCoord == 2
MaxSide == 2

GridBoxes == { << x, y, w, h >> : x \in 0..MaxCoord, y \in 0..MaxCoord,
                                  w \in 1..MaxSide, h \in 1..MaxSide }

InitIoU ==
    /\ InitComponent
    /\ call \in { [op |-> "calculateIoU", args |-> << bbox1, bbox2 >>,
                    done |-> FALSE, result |-> << >>] :
                      bbox1 \in GridBoxes, bbox2 \in GridBoxes }

CallCalculateIoU ==
    /\ call.op = "calculateIoU" /\ ~call.done
    /\ call' = [call EXCEPT !.done = TRUE,
                            !.result = calculateIoU(call.args[1], call.args[2])]
    /\ UNCHANGED << animationRef, rafQueue, nextRaf, pendingDetect, now, trackedDetections,
                    announcedObjects, detections, detectionCount, spoken, lastTick, legacy >>
    /\ UNCHANGED ctlVars

NextIoU == CallCalculateIoU

SpecIoU == InitIoU /\ [][NextIoU]_vars

----------------------------------------------------------------------------
(* The candidate builder called on short lists of predictions around the   *)
(* score threshold.                                                        *)

BuilderScores == { 40, 50, 60 }
BuilderLabels == { "bottle", "Person", "dog" }
BuilderPool == { [class |-> c, score |-> sc, bbox |-> << 100, 100, 50, 200 >>] :
                     c \in BuilderLabels, sc \in BuilderScores }
MaxPredictions == 2

InitBuilder ==
    /\ InitComponent
    /\ call \in { [op |-> "BuildCandidates", args |-> predictions,
                    done |-> FALSE, result |-> << >>] :
                      predictions \in UNION { [1..k -> BuilderPool] : k \in 0..MaxPredictions } }

CallBuildCandidates(canvasWidth) ==
    /\ call.op = "BuildCandidates" /\ ~call.done
    /\ call' = [call EXCEPT !.done = TRUE,
                            !.result = BuildCandidates(call.args, canvasWidth)]
    /\ UNCHANGED << animationRef, rafQueue, nextRaf, pendingDetect, now, trackedDetections,
                    announcedObjects, detections, detectionCount, spoken, lastTick, legacy >>
    /\ UNCHANGED ctlVars

NextBuilder == \E canvasWidth \in CanvasWidths : CallBuildCandidates(canvasWidth)

SpecBuilder == InitBuilder /\ [][NextBuilder]_vars

----------------------------------------------------------------------------
(* The two distance estimates called on labels and box heights.            *)

DistanceLabels == { "bottle", "Bottle", "cup", "chair", "toothbrush" }
HeightSamples == { 1, 7, 8, 15, 16, 60, 61, 100, 200, 240, 241, 300, 301, 500, 501,
                   1200, 1201, 2000 }
ImageHeight == 480

InitDistance ==
    /\ InitComponent
    /\ call \in { [op |-> "estimateDistance", args |-> << c, h >>,
                    done |-> FALSE, result |-> << >>] :
                      c \in DistanceLabels, h \in HeightSamples }

\* result: << the estimate of detectObjects, the estimate of estimateDistance >>
CallEstimateDistance ==
    /\ call.op = "estimateDistance" /\ ~call.done
    /\ call' = [call EXCEPT !.done = TRUE,
                            !.result = << EstimateDistance(call.args[1], call.args[2]),
                                          estimateDistance(call.args[1], call.args[2],
                                                           ImageHeight) >>]
    /\ UNCHANGED << animationRef, rafQueue, nextRaf, pendingDetect, now, trackedDetections,
                    announcedObjects, detections, detectionCount, spoken, lastTick, legacy >>
    /\ UNCHANGED ctlVars

NextDistance == CallEstimateDistance

SpecDistance == InitDistance /\ [][NextDistance]_vars

----------------------------------------------------------------------------
(* The two zone classifiers called on boxes across frames of two widths.   *)

MaxZoneX == 40
ZoneBoxWidths == { 1, 2 }
ZoneFrameWidths == { 20, 40 }

InitZone ==
    /\ InitComponent
    /\ call \in { [op |-> "position", args |-> << << x, 0, bw, 10 >>, w >>,
                    done |-> FALSE, result |-> << >>] :
                      x \in 0..MaxZoneX, bw \in ZoneBoxWidths, w \in ZoneFrameWidths }

\* result: << the zone of detectObjects, the zone of getDirection >>
CallPosition ==
    /\ call.op = "position" /\ ~call.done
    /\ call' = [call EXCEPT !.done = TRUE,
                            !.result = << Position(call.args[1], call.args[2]),
                                          getDirection(2 * call.args[1][1] + call.args[1][3],
                                                       call.args[2]) >>]
    /\ UNCHANGED << animationRef, rafQueue, nextRaf, pendingDetect, now, trackedDetections,
                    announcedObjects, detections, detectionCount, spoken, lastTick, legacy >>
    /\ UNCHANGED ctlVars

NextZone == CallPosition

SpecZone == InitZone /\ [][NextZone]_vars

----------------------------------------------------------------------------
(* The crowded shelf: the session starts without failure and the detector  *)
(* reports seven bottles side by side, or only the two farthest, 100 ms    *)
(* apart.  The nearer a bottle, the lower its score.                       *)

Crowd1 == [class |-> "bottle", score |-> 95, bbox |-> << 0, 0, 30, 40 >>]
Crowd2 == [class |-> "bottle", score |-> 90, bbox |-> << 40, 0, 30, 50 >>]
Crowd3 == [class |-> "bottle", score |-> 85, bbox |-> << 80, 0, 30, 75 >>]
Crowd4 == [class |-> "bottle", score |-> 80, bbox |-> << 120, 0, 30, 100 >>]
Crowd5 == [class |-> "bottle", score |-> 75, bbox |-> << 160, 0, 30, 150 >>]
Crowd6 == [class |-> "bottle", score |-> 70, bbox |-> << 200, 0, 30, 200 >>]
\* at 5 m, beyond MAX_DETECTION_DISTANCE
Crowd7 == [class |-> "bottle", score |-> 99, bbox |-> << 240, 0, 30, 30 >>]

CrowdFrames == { << Crowd1, Crowd2, Crowd3, Crowd4, Crowd5, Crowd6, Crowd7 >>,
                 << Crowd1, Crowd7 >> }
CrowdSteps == { 100 }
MaxCrowdRaf == 8

NextCrowd ==
    \/ DoubleTap
    \/ CommitEffects
    \/ ModelLoaded
    \/ CameraGranted
    \/ VideoPlaying
    \/ \E id \in rafQueue : FrameDetect(id)
    \/ Within(MaxCrowdRaf) /\ \E predictions \in CrowdFrames, dt \in CrowdSteps,
                                 canvasWidth \in CanvasWidths :
           DetectResolved(predictions, dt, canvasWidth)

SpecCrowd == Init /\ [][NextCrowd]_vars

----------------------------------------------------------------------------
(* The sparse scene: the session starts without failure; a frame is empty, *)
(* holds only detections the candidate builder rejects, one cup, two       *)
(* bottles side by side that overlap by a quarter, or a cup next to a      *)
(* prediction without a label.  Ticks are 300 or 301 ms apart.             *)

Person == [class |-> "Person", score |-> 95, bbox |-> << 300, 0, 100, 400 >>]
FaintBottle == [class |-> "bottle", score |-> 40, bbox |-> << 500, 100, 50, 200 >>]
LoneCup == [class |-> "cup", score |-> 90, bbox |-> << 0, 300, 100, 50 >>]
\* IoU(TwinA, TwinB) = 1200 / 4800
TwinA == [class |-> "bottle", score |-> 90, bbox |-> << 0, 0, 30, 100 >>]
TwinB == [class |-> "bottle", score |-> 80, bbox |-> << 18, 0, 30, 100 >>]
Unlabelled == [class |-> MissingLabel, score |-> 90, bbox |-> << 400, 0, 50, 100 >>]

SparseFrames == { << >>, << Person, FaintBottle >>, << LoneCup >>,
                  << TwinA, TwinB >>, << Unlabelled, LoneCup >> }
SparseSteps == { 300, 301 }
MaxSparseRaf == 5

NextSparse ==
    \/ DoubleTap
    \/ CommitEffects
    \/ ModelLoaded
    \/ CameraGranted
    \/ VideoPlaying
    \/ \E id \in rafQueue : FrameDetect(id)
    \/ Within(MaxSparseRaf) /\ \E predictions \in SparseFrames, dt \in SparseSteps,
                                  canvasWidth \in CanvasWidths :
           DetectResolved(predictions, dt, canvasWidth)

SpecSparse == Init /\ [][NextSparse]_vars

----------------------------------------------------------------------------
(* The unreliable detector: the session starts without failure and stays   *)
(* mounted; every model.detect call may reject or resolve.  The browser    *)
(* runs a requested animation frame, and a detector that can resolve again *)
(* and again does resolve.                                                 *)

RetryFrames == { << >>, << BottleA >> }
RetrySteps == { 100 }
MaxRetryRaf == 6

RetryFrame == \E id \in rafQueue : FrameDetect(id)
RetryResolved ==
    Within(MaxRetryRaf) /\ \E predictions \in RetryFrames, dt \in RetrySteps,
                               canvasWidth \in CanvasWidths :
        DetectResolved(predictions, dt, canvasWidth)

NextRetry ==
    \/ DoubleTap
    \/ CommitEffects
    \/ ModelLoaded
    \/ CameraGranted
    \/ VideoPlaying
    \/ RetryFrame
    \/ RetryResolved
    \/ Within(MaxRetryRaf) /\ DetectRejected

SpecRetry ==
    Init /\ [][NextRetry]_vars /\ WF_vars(RetryFrame) /\ SF_vars(RetryResolved)

----------------------------------------------------------------------------
(* The near and the far end: the session starts without failure and the    *)
(* detector reports two bottles, one so tall and one so small that their   *)
(* estimates are clamped, or the same two at sizes whose estimates are     *)
(* not, 100 ms apart.                                                      *)

\* 250 * 600 / 600 = 250 mm, below DISTANCE_MIN
TallBottle == [class |-> "bottle", score |-> 90, bbox |-> << 0, 0, 10, 600 >>]
\* 500 mm
HalfBottle == [class |-> "bottle", score |-> 90, bbox |-> << 0, 0, 10, 300 >>]
\* 15000 mm, above DISTANCE_MAX
TinyBottle == [class |-> "bottle", score |-> 80, bbox |-> << 100, 0, 10, 10 >>]
\* 7500 mm
SmallBottle == [class |-> "bottle", score |-> 80, bbox |-> << 100, 0, 10, 20 >>]

ClampFrames == { << TallBottle, TinyBottle >>, << HalfBottle, SmallBottle >> }
ClampSteps == { 100 }
MaxClampRaf == 8

NextClamp ==
    \/ DoubleTap
    \/ CommitEffects
    \/ ModelLoaded
    \/ CameraGranted
    \/ VideoPlaying
    \/ \E id \in rafQueue : FrameDetect(id)
    \/ Within(MaxClampRaf) /\ \E predictions \in ClampFrames, dt \in ClampSteps,
                                 canvasWidth \in CanvasWidths :
           DetectResolved(predictions, dt, canvasWidth)

SpecClamp == Init /\ [][NextClamp]_vars

----------------------------------------------------------------------------
(* The legacy component: the model loads, the video plays, React renders   *)
(* again after every state change, and the loop runs ticks 1 or 3 seconds  *)
(* apart.                                                                  *)

currentVars == << animationRef, rafQueue, nextRaf, pendingDetect, now, trackedDetections,
                  announcedObjects, detections, detectionCount, spoken, lastTick, call >>

LegacyFrames == { << >>, << BottleA >>, << CupLeft, BottleA >> }
LegacySteps == { 1000, 3000 }
MaxLegacyTicks == 4

\* setModel(loadedModel)
LegacyModelLoaded ==
    /\ ~legacy.model
    /\ legacy' = [legacy EXCEPT !.model = TRUE, !.renderPending = TRUE]
    /\ UNCHANGED ctlVars
    /\ UNCHANGED currentVars

\* setIsDetecting(true), after the camera effect ran for the loaded model
LegacyVideoPlaying ==
    /\ legacy.model /\ ~legacy.renderPending /\ ~legacy.isDetecting
    /\ legacy' = [legacy EXCEPT !.isDetecting = TRUE, !.renderPending = TRUE]
    /\ UNCHANGED ctlVars
    /\ UNCHANGED currentVars

\* A render: useCallback(..., [lastAnnouncement, speak]) gives an
\* announceDetection over the lastAnnouncement of this render;
\* useCallback(..., [model, isDetecting]) gives a new detectObjects, over the
\* announceDetection of this render, only when model or isDetecting changed.
LegacyRender ==
    /\ legacy.renderPending
    /\ legacy' = [legacy EXCEPT
                     !.renderPending = FALSE,
                     !.announceSees = legacy.lastAnnouncement,
                     !.detectDeps = << legacy.model, legacy.isDetecting >>,
                     !.detectSees =
                         IF legacy.detectDeps # << legacy.model, legacy.isDetecting >>
                         THEN legacy.lastAnnouncement ELSE @]
    /\ UNCHANGED ctlVars
    /\ UNCHANGED currentVars

\* One run of the memoized detectObjects, at Date.now() = clock + dt:
\* setDetections, then announceDetection(detectedObjects[0], false).
LegacyTick(predictions, dt) ==
    /\ legacy.detectDeps = << TRUE, TRUE >>
    /\ legacy.ticks < MaxLegacyTicks
    /\ LET currentTime == legacy.clock + dt
           detectedObjects == LegacyCandidates(predictions)
           speaks == /\ detectedObjects # << >>
                     /\ LegacyAnnounceSpeaks(LegacyNearest(detectedObjects), FALSE,
                                             legacy.detectSees, currentTime)
       IN  legacy' = [legacy EXCEPT
                         !.clock = currentTime,
                         !.ticks = @ + 1,
                         !.renderPending = TRUE,
                         \* setLastAnnouncement(prev => ({ ...prev, [key]: now }))
                         !.lastAnnouncement =
                             IF speaks
                             THEN [@ EXCEPT ![LegacyNearest(detectedObjects).class] = currentTime]
                             ELSE @,
                         !.spoken =
                             IF speaks
                             THEN Append(@, [class |-> LegacyNearest(detectedObjects).class,
                                             time |-> currentTime])
                             ELSE @]
    /\ UNCHANGED ctlVars
    /\ UNCHANGED currentVars

NextLegacy ==
    \/ LegacyModelLoaded
    \/ LegacyVideoPlaying
    \/ LegacyRender
    \/ \E predictions \in LegacyFrames, dt \in LegacySteps : LegacyTick(predictions, dt)

SpecLegacy == Init /\ [][NextLegacy]_vars

----------------------------------------------------------------------------
(* Properties.                                                             *)

Range(seq) == { seq[i] : i \in 1..Len(seq) }

\* A step that processed a tick (the continuation of model.detect ran).
TickStep == detectionCount' # detectionCount

\* C1: once the session is stopped (the camera effect's cleanup has run at
\* unmount) no tick is scheduled any more and the track map and the
\* announced set are empty, also when a model.detect call was pending.
C1_StoppedSessionStaysStopped ==
    ~mounted => rafQueue = {} /\ trackedDetections = << >> /\ announcedObjects = {}

\* C2: at most one detectObjects invocation is in flight, and no animation
\* frame is requested while a model.detect call is pending.
C2_OneDetectInFlight == pendingDetect + Cardinality(rafQueue) <= 1

C2_Witness == pendingDetect = 1 /\ detectionCount >= 2 /\ rafQueue = {}

\* C3: a processed tick removes every track it did not match whose age
\* now - lastSeen exceeds 600 ms and keeps every track whose age is at most
\* 600 ms; every track in the map has now - lastSeen <= 600.
C3_StaleSweep ==
    /\ [](\A i \in 1..Len(trackedDetections) :
             now - trackedDetections[i].val.lastSeen <= 600)
    /\ [][TickStep =>
            \A i \in 1..Len(trackedDetections) :
                LET e == trackedDetections[i]
                    age == now' - e.val.lastSeen
                IN  /\ age <= 600 => e.key \in MapKeys(trackedDetections')
                    /\ age > 600 /\ e.key \notin Range(lastTick'.matched)
                           => e.key \notin MapKeys(trackedDetections')]_vars

C3_Witness ==
    /\ \E k \in lastTick.removed : lastTick.time - lastTick.removedSeen[k] = 601
    /\ \E i \in 1..Len(trackedDetections) : trackedDetections[i].val.lastSeen = now

\* C4: every id in the announced set is the key of a track in the track map.
C4_RecordsWithinTracks == announcedObjects \subseteq MapKeys(trackedDetections)

C4_Witness ==
    /\ mounted
    /\ \E k \in lastTick.removed :
           /\ \E i \in 1..Len(spoken) : spoken[i].id = k
           /\ k \notin announcedObjects

\* C5: the tracks created in a tick get pairwise different ids, and creating
\* a track never overwrites an entry of the track map.
C5_NewIdsUnique ==
    /\ lastTick.overwrote = {}
    /\ \A i, j \in 1..Len(lastTick.created) :
           i # j => lastTick.created[i] # lastTick.created[j]

\* C6: the confirmed list holds only tracks with frameCount >= 5; a track
\* with frameCount below 5 is not in it, a track matched in the tick with
\* frameCount >= 5 within 4.0 m is, and the first four ticks confirm nothing.
C6_ConfirmedFromFifthFrame ==
    /\ \A i \in 1..Len(detections) : detections[i].frameCount >= 5
    /\ \A j \in 1..Len(trackedDetections) :
           LET t == trackedDetections[j].val
           IN  /\ t.frameCount < 5 => \A i \in 1..Len(detections) : detections[i].id # t.id
               /\ t.frameCount >= 5 /\ t.lastSeen = now /\ t.smoothedDistance <= 4000
                      => \/ \E i \in 1..Len(detections) : detections[i] = t
                         \/ Len(detections) = MAX_DISPLAY_OBJECTS
    /\ detectionCount < 5 => detections = << >>

C6_Witness ==
    /\ detectionCount = 5
    /\ \E i \in 1..Len(detections) : detections[i].frameCount = 5

\* C7: two announcements of the same track id are never less than 3000 ms apart.
C7_CooldownBetweenAnnouncements ==
    \A i, j \in 1..Len(spoken) :
        i < j /\ spoken[i].id = spoken[j].id => spoken[j].time - spoken[i].time >= 3000

\* The nearest confirmed track went through the gate in the last tick, less
\* than 3000 ms after it was announced, and nothing was spoken for it.
C7_Witness ==
    /\ detections # << >>
    /\ detections[1].lastSeen = now
    /\ lastTick.time = now
    /\ \E i \in 1..Len(spoken) :
           /\ spoken[i].id = detections[1].id
           /\ spoken[i].time < now
           /\ now - spoken[i].time < 3000
    /\ \A i \in 1..Len(spoken) : spoken[i].time # now

C9_BottleScenario ==
    detectionCount >= 1 =>
        /\ EstimateDistance("bottle", 200) = 750
        /\ Len(trackedDetections) = 1
        /\ LET e == trackedDetections[1]
           IN  /\ e.key = NewTrackId("bottle", 100, 30)
               /\ e.val.id = e.key
               /\ e.val.frameCount = detectionCount
               /\ e.val.smoothedDistance = 750
               /\ e.val.distance = 750
               /\ detectionCount < 5 => detections = << >> /\ spoken = << >>
               /\ detectionCount >= 5 =>
                      /\ detections = << e.val >>
                      /\ Len(spoken) = 1
                      /\ spoken[1].id = e.key
                      /\ spoken[1].time = 150

C9_Witness ==
    /\ detectionCount = 7
    /\ now = 210
    /\ Len(spoken) = 1
    /\ spoken[1].time = 150

\* C10: the key of every entry of the track map is the track's id; a matched
\* update keeps the entry, its key, id and class; a zone change of an
\* announced track emits no announcement for it.
C10_IdentityPersists ==
    /\ [](\A i \in 1..Len(trackedDetections) :
             trackedDetections[i].key = trackedDetections[i].val.id)
    /\ [][TickStep =>
            \A i \in 1..Len(trackedDetections) :
                LET k == trackedDetections[i].key
                    old == trackedDetections[i].val
                IN  /\ k \in Range(lastTick'.matched) =>
                           /\ k \in MapKeys(trackedDetections')
                           /\ MapGet(trackedDetections', k).id = k
                           /\ MapGet(trackedDetections', k).class = old.class
                           /\ MapGet(trackedDetections', k).frameCount > old.frameCount
                    /\ k \in MapKeys(trackedDetections') /\ k \in announcedObjects
                           /\ MapGet(trackedDetections', k).position # old.position
                       => \A j \in (Len(spoken) + 1)..Len(spoken') : spoken'[j].id # k]_vars

C10_Witness ==
    \E i \in 1..Len(trackedDetections) :
        LET e == trackedDetections[i]
        IN  /\ e.val.position = "right"
            /\ e.key \in announcedObjects
            /\ \E j \in 1..Len(spoken) :
                   spoken[j].id = e.key /\ spoken[j].text.position = "left"
            /\ Cardinality({ j \in 1..Len(spoken) : spoken[j].id = e.key }) = 1

----------------------------------------------------------------------------
(* The tracker, candidate by candidate (lastTick.steps).                   *)

\* The track a step matched, before and after the step.
StepBefore(s) == MapGet(s.pool, s.key)
StepAfter(s) == MapGet(s.result, s.key)

\* The tracks of the pool with the candidate's label and IoU above 1/5.
StepEligible(s) ==
    { i \in 1..Len(s.pool) :
        /\ s.pool[i].val.class = s.detection.class
        /\ LET iou == calculateIoU(s.detection.bbox, s.pool[i].val.smoothedBbox)
           IN  iou.den > 0 /\ 5 * iou.num > iou.den }

\* IoU of the candidate with track i of the pool is at least that with track j.
StepIoUAtLeast(s, i, j) ==
    LET a == calculateIoU(s.detection.bbox, s.pool[i].val.smoothedBbox)
        b == calculateIoU(s.detection.bbox, s.pool[j].val.smoothedBbox)
    IN  a.num * b.den >= b.num * a.den

\* C11: the label of a track never changes: a step matches a candidate only
\* to a track of the same label and leaves the label as it was, a candidate
\* whose label differs from the label of every track it overlaps creates a
\* track of its own label, and a key of the map keeps its label over a tick.
C11_LabelNeverChanges ==
    /\ [](\A n \in 1..Len(lastTick.steps) :
             LET s == lastTick.steps[n]
             IN  /\ s.kind = "update" =>
                        /\ StepBefore(s).class = s.detection.class
                        /\ StepAfter(s).class = StepBefore(s).class
                 /\ (\A i \in 1..Len(s.pool) :
                        calculateIoU(s.detection.bbox, s.pool[i].val.smoothedBbox).num > 0
                            => s.pool[i].val.class # s.detection.class)
                    => /\ s.kind = "create"
                       /\ StepAfter(s).class = s.detection.class
                       /\ StepAfter(s).frameCount = 1)
    /\ [][\A i \in 1..Len(trackedDetections) :
              LET k == trackedDetections[i].key
              IN  k \in MapKeys(trackedDetections')
                      => MapGet(trackedDetections', k).class
                             = trackedDetections[i].val.class]_vars

\* A cup was reported on the box of a tracked bottle and became a new track.
C11_Witness ==
    \E n \in 1..Len(lastTick.steps) :
        LET s == lastTick.steps[n]
        IN  /\ s.kind = "create"
            /\ s.detection.class = "cup"
            /\ \E i \in 1..Len(s.pool) :
                   /\ s.pool[i].val.class = "bottle"
                   /\ s.pool[i].val.smoothedBbox = s.detection.bbox
            /\ \E i \in 1..Len(trackedDetections) :
                   trackedDetections[i].val.class = "bottle"

C13_BestMatchSelected ==
    \A n \in 1..Len(lastTick.steps) :
        LET s == lastTick.steps[n]
            eligible == StepEligible(s)
        IN  /\ eligible = {} => s.kind = "create"
            /\ eligible # {} =>
                   /\ s.kind = "update"
                   /\ \E b \in eligible :
                          /\ s.key = s.pool[b].key
                          /\ \A j \in eligible : StepIoUAtLeast(s, b, j)
                          /\ \A j \in eligible : j < b => ~StepIoUAtLeast(s, j, b)

\* A candidate with the same IoU to two fresh tracks was matched to the first
\* (its box is now smoothed), a later candidate chose the second track of the
\* map over the first, and a cup with IoU exactly 0.2 was not matched.
C13_Witness ==
    \E n \in 1..Len(lastTick.steps) :
        LET s == lastTick.steps[n]
        IN  /\ s.kind = "update"
            /\ Cardinality(StepEligible(s)) = 2
            /\ s.key = s.pool[2].key
            /\ s.pool[1].val.frameCount = 2
            /\ s.pool[1].val.smoothedBbox = << 5, 0, 30, 106 >>
            /\ s.pool[2].val.frameCount = 1
            /\ \E i \in 1..Len(trackedDetections) :
                   /\ trackedDetections[i].val.class = "cup"
                   /\ trackedDetections[i].val.frameCount = 1
                   /\ trackedDetections[i].val.smoothedBbox = ShelfCupShifted.bbox
            /\ \E i \in 1..Len(trackedDetections) :
                   /\ trackedDetections[i].val.class = "cup"
                   /\ trackedDetections[i].val.smoothedBbox = ShelfCup.bbox

\* C14: a candidate that matches no track creates exactly one new track, with
\* smoothedBbox the candidate's box, smoothedDistance the candidate's
\* distance, frameCount 1 and lastSeen now, and leaves every track that
\* existed before it unchanged.
C14_CreationAddsOneTrack ==
    \A n \in 1..Len(lastTick.steps) :
        LET s == lastTick.steps[n]
        IN  s.kind = "create" =>
                /\ Len(s.result) = Len(s.pool) + 1
                /\ \A i \in 1..Len(s.pool) : s.result[i] = s.pool[i]
                /\ LET new == s.result[Len(s.result)].val
                   IN  /\ new.smoothedBbox = s.detection.bbox
                       /\ new.smoothedDistance = s.detection.distance
                       /\ new.frameCount = 1
                       /\ new.lastSeen = lastTick.time

----------------------------------------------------------------------------
(* removeOverlappingDetections and calculateIoU, call by call.             *)

OverlapDone == call.op = "removeOverlappingDetections" /\ call.done

\* Two boxes have IoU > 0.3.
Overlapping(a, b) ==
    LET iou == calculateIoU(a.bbox, b.bbox)
    IN  iou.den > 0 /\ 10 * iou.num > 3 * iou.den

\* a is ahead of b in the confidence order: higher score, or the same score
\* and earlier in the input.
Ahead(input, a, b) ==
    \/ a.score > b.score
    \/ /\ a.score = b.score
       /\ \E i, j \in 1..Len(input) : i < j /\ input[i] = a /\ input[j] = b

\* C15 as claimed: of two candidates of the same label in the input whose
\* boxes have IoU > 0.3, exactly one is kept, the one ahead in confidence
\* (on equal confidence the one earlier in the input).
C15_HigherOfEachPairKept ==
    OverlapDone =>
        \A a, b \in Range(call.args) :
            a.class = b.class /\ Overlapping(a, b) /\ Ahead(call.args, a, b)
                => a \in Range(call.result) /\ b \notin Range(call.result)

\* C15 as amended: of two such candidates never both are kept; the one ahead
\* is kept unless its box has IoU > 0.3 with a kept candidate ahead of it,
\* and then the other one may be kept; when the input consists of the two
\* candidates, exactly the one ahead is kept.
C15_NeverBothKept ==
    OverlapDone =>
        \A a, b \in Range(call.args) :
            a.class = b.class /\ Overlapping(a, b) /\ Ahead(call.args, a, b)
                => /\ ~(a \in Range(call.result) /\ b \in Range(call.result))
                   /\ \/ a \in Range(call.result)
                      \/ \E k \in Range(call.result) :
                             Ahead(call.args, k, a) /\ Overlapping(k, a)
                   /\ a \in Range(call.result) => b \notin Range(call.result)
                   /\ Len(call.args) = 2 => call.result = << a >>

\* The list <<OverlapD, OverlapB>> (equal scores) gave <<OverlapD>>, the
\* first of the two.
C15_Witness ==
    /\ OverlapDone
    /\ call.args = << OverlapD, OverlapB >>
    /\ call.result = << OverlapD >>

\* C16: the result of removeOverlappingDetections holds only candidates of
\* the input, each once, is no longer than the input and leaves the input
\* as it was; it is ordered by confidence descending; no two of its
\* candidates have IoU > 0.3; the candidate first in the confidence order
\* is kept; every removed candidate has IoU > 0.3 with a kept candidate of
\* confidence at least its own.
C16_OverlapResolverResult ==
    /\ [](OverlapDone =>
             LET input == call.args
                 result == call.result
             IN  /\ Range(result) \subseteq Range(input)
                 /\ Len(result) <= Len(input)
                 /\ \A i, j \in 1..Len(result) : i < j =>
                        /\ result[i] # result[j]
                        /\ result[i].score >= result[j].score
                        /\ ~Overlapping(result[i], result[j])
                 /\ \A a \in Range(input) :
                        (\A b \in Range(input) : b # a => Ahead(input, a, b))
                            => result # << >> /\ result[1] = a
                 /\ \A r \in Range(input) \ Range(result) :
                        \E k \in Range(result) : Overlapping(r, k) /\ k.score >= r.score)
    /\ [][call'.args = call.args]_vars

\* Out of three candidates given in ascending confidence, the middle one was
\* removed and the result is in descending order.
C16_Witness ==
    /\ OverlapDone
    /\ call.args = << OverlapC, OverlapB, OverlapA >>
    /\ call.result = << OverlapA, OverlapC >>

IoUDone == call.op = "calculateIoU" /\ call.done

\* Two boxes share no area (they may touch at an edge or a corner).
Apart(b1, b2) ==
    \/ b1[1] + b1[3] <= b2[1] \/ b2[1] + b2[3] <= b1[1]
    \/ b1[2] + b1[4] <= b2[2] \/ b2[2] + b2[4] <= b1[2]

\* C17: for boxes of positive width and height, calculateIoU(b, b) = 1,
\* calculateIoU(a, b) = 0 when a and b do not overlap or only touch,
\* calculateIoU(a, b) = calculateIoU(b, a), and the result is in [0, 1].
C17_IoUProperties ==
    IoUDone =>
        LET a == call.args[1]
            b == call.args[2]
            iou == call.result
            swapped == calculateIoU(b, a)
        IN  /\ iou.den > 0
            /\ 0 <= iou.num /\ iou.num <= iou.den
            /\ a = b => iou.num = iou.den
            /\ Apart(a, b) => iou.num = 0
            /\ ~Apart(a, b) => iou.num > 0
            /\ iou.num * swapped.den = swapped.num * iou.den

\* Two boxes that touch along an edge were compared.
C17_Witness ==
    /\ IoUDone
    /\ call.args = << << 0, 0, 1, 2 >>, << 1, 0, 2, 2 >> >>
    /\ call.result.num = 0

----------------------------------------------------------------------------
(* The candidate builder and the distance estimates, call by call.         *)

\* C18: a prediction is discarded exactly when its confidence is below 0.5
\* or its lower-cased label is an excluded class; every other prediction,
\* one with confidence exactly 0.5 included, gives one candidate with its
\* label, confidence and box.
C18_DiscardedOnlyBelowThreshold ==
    call.op = "BuildCandidates" /\ call.done =>
        LET Discarded(p) ==
                \/ p.score < 50
                \/ (IF p.class = "Person" THEN "person" ELSE p.class)
                       \in {"person", "dog"}
            expected == SelectSeq(call.args, LAMBDA p : ~Discarded(p))
        IN  /\ Len(call.result) = Len(expected)
            /\ \A i \in 1..Len(expected) :
                   /\ call.result[i].class = expected[i].class
                   /\ call.result[i].score = expected[i].score
                   /\ call.result[i].bbox = expected[i].bbox

\* d is clamp(ref * 600 / height, lo, hi) to the nearest millimetre.
IsClampedEstimate(d, ref, height, lo, hi) ==
    /\ lo <= d /\ d <= hi
    /\ ref * 600 <= lo * height => d = lo
    /\ ref * 600 >= hi * height => d = hi
    /\ lo * height < ref * 600 /\ ref * 600 < hi * height
           => /\ 2 * d * height - 2 * ref * 600 <= height
              /\ 2 * ref * 600 - 2 * d * height <= height

\* The reference height of a label in millimetres, 0 for a label not listed.
ListedHeight(label) ==
    CASE label \in {"bottle", "Bottle"} -> 250
      [] label = "cup" -> 120
      [] label = "chair" -> 900
      [] OTHER -> 0

\* C19: for every label and box height > 0 the estimate is
\* clamp(referenceHeight(lower-cased label) * 600 / height, min, max) with
\* the fallback height for labels not listed: within [0.3, 10] with
\* fallback 0.3 in detectObjects, within [0.5, 10] with fallback 1.0 in
\* estimateDistance; a bottle of height 200 gives 0.75.
C19_DistanceEstimate ==
    call.op = "estimateDistance" /\ call.done =>
        LET label == call.args[1]
            height == call.args[2]
            listed == ListedHeight(label)
        IN  /\ IsClampedEstimate(call.result[1],
                                 IF listed # 0 THEN listed ELSE 300, height, 300, 10000)
            /\ IsClampedEstimate(call.result[2],
                                 IF listed # 0 THEN listed ELSE 1000, height, 500, 10000)
            /\ label = "bottle" /\ height = 200 => call.result = << 750, 750 >>

\* A bottle so near that the estimate of detectObjects is raised to 0.3 m
\* and that of estimateDistance to 0.5 m.
C19_Witness ==
    /\ call.op = "estimateDistance" /\ call.done
    /\ call.args = << "Bottle", 501 >>
    /\ call.result = << 300, 500 >>

\* C20: the zone reported for a confirmed track is the zone of its smoothed
\* box in the current frame, not the zone of the raw box of the candidate
\* matched in the tick.
C20_ZoneOfSmoothedBox ==
    \A i \in 1..Len(detections) :
        \A canvasWidth \in CanvasWidths :
            detections[i].position = Position(detections[i].smoothedBbox, canvasWidth)

----------------------------------------------------------------------------
(* Zones, the confirmed list, idle and failed ticks.                       *)

\* The zone of a centre given in tenths of a pixel in a frame of width w:
\* the ratio centre / w against 0.35 and 0.65.
ZoneOfRatio(centre10, w) ==
    IF centre10 * 10 < 35 * w THEN "left"
    ELSE IF centre10 * 10 > 65 * w THEN "right"
    ELSE "center"

\* C21: a box centre x in a frame of width w is left when x/w < 0.35, right
\* when x/w > 0.65 and center otherwise, x/w = 0.35 and x/w = 0.65
\* included; the width is the one passed for the tick; the classifier of
\* detectObjects and getDirection give the same zone.
C21_ZoneClassification ==
    call.op = "position" /\ call.done =>
        LET bbox == call.args[1]
            w == call.args[2]
            centre10 == 10 * bbox[1] + 5 * bbox[3]
        IN  /\ call.result[1] = ZoneOfRatio(centre10, w)
            /\ call.result[2] = call.result[1]
            /\ centre10 * 100 = 35 * w * 10 \/ centre10 * 100 = 65 * w * 10
                   => call.result = << "center", "center" >>

\* A centre of 7 in a frame of width 20 (ratio 0.35) was classified.
C21_Witness ==
    /\ call.op = "position" /\ call.done
    /\ call.args = << << 6, 0, 2, 10 >>, 20 >>
    /\ call.result = << "center", "center" >>

\* The tracks of the map with frameCount >= 5 and smoothedDistance <= 4.0 m.
Qualifying ==
    { i \in 1..Len(trackedDetections) :
        /\ trackedDetections[i].val.frameCount >= 5
        /\ trackedDetections[i].val.smoothedDistance <= 4000 }

C23_ListEntriesAreSnapshots ==
    [][TickStep =>
          /\ lastTick'.held = detections
          /\ LET matchedMap == MatchedMap(lastTick'.steps, trackedDetections)
             IN  \A i \in 1..Len(trackedDetections') :
                     /\ MapHas(matchedMap, trackedDetections'[i].key)
                     /\ MapGet(matchedMap, trackedDetections'[i].key)
                            = trackedDetections'[i].val]_vars

\* The tick had no candidate: every prediction was rejected by the builder.
NoCandidates(predictions) ==
    \A i \in 1..Len(predictions) :
        predictions[i].class # MissingLabel /\ ~PassesFilter(predictions[i])

\* C24: a tick without candidates creates no track and changes no field of
\* any track: the map after it is the map before it without the tracks
\* last seen more than 600 ms before the tick, in the same order.
C24_EmptyTickOnlyAges ==
    [][TickStep /\ NoCandidates(lastTick'.predictions) =>
          /\ lastTick'.created = << >>
          /\ lastTick'.matched = << >>
          /\ trackedDetections' =
                 SelectSeq(trackedDetections,
                           LAMBDA e : now' - e.val.lastSeen <= MAX_TRACKING_AGE_MS)]_vars

\* After a tick whose predictions were all rejected by the builder, one track
\* has been removed and another, last seen before the tick, is still there.
C24_Witness ==
    /\ lastTick.predictions # << >>
    /\ NoCandidates(lastTick.predictions)
    /\ lastTick.time = now
    /\ lastTick.removed # {}
    /\ \E i \in 1..Len(trackedDetections) : trackedDetections[i].val.lastSeen < now

\* A step in which a model.detect call ended without a processed tick.
RejectedStep == pendingDetect' < pendingDetect /\ detectionCount' = detectionCount

\* C25: a rejected model.detect call leaves the next animation frame
\* requested, and after a tick that ended in the catch block a tick is
\* processed later (or the bound on the animation frames is reached first).
C25_LoopSurvivesRejection ==
    /\ [][RejectedStep => animationRef' \in rafQueue']_vars
    /\ (lastTick.threw /\ Within(MaxRetryRaf))
           ~> (~lastTick.threw \/ ~Within(MaxRetryRaf))

\* Two model.detect calls in a row were rejected, and then a tick was
\* processed.
C25_Witness ==
    /\ ~lastTick.threw
    /\ detectionCount = 1
    /\ nextRaf = 5
    /\ lastTick.time = now

\* C26: a tick whose model.detect call is rejected leaves the track map, the
\* announced set and the confirmed list as a tick without detections at
\* the same time would.
C26_RejectionIsEmptyTick ==
    [][RejectedStep =>
          \E dt \in Steps, canvasWidth \in CanvasWidths :
              /\ trackedDetections' =
                     ProcessFrame(<< >>, now + dt, canvasWidth,
                                  trackedDetections, announcedObjects).map
              /\ announcedObjects' =
                     ProcessFrame(<< >>, now + dt, canvasWidth,
                                  trackedDetections, announcedObjects).announced
              /\ detections' =
                     ProcessFrame(<< >>, now + dt, canvasWidth,
                                  trackedDetections, announcedObjects).stable]_vars

\* The predictions that have a label.
WellFormed(predictions) == SelectSeq(predictions, LAMBDA p : p.class # MissingLabel)

\* C27: a prediction without a label yields no candidate and no track, and
\* the tick processes the other predictions of the frame: the tick leaves
\* the track map and the confirmed list as the frame without the malformed
\* predictions would.
C27_MalformedDroppedSilently ==
    [][TickStep =>
          \E dt \in SparseSteps, canvasWidth \in CanvasWidths :
              /\ trackedDetections' =
                     ProcessFrame(WellFormed(lastTick'.predictions), now + dt, canvasWidth,
                                  trackedDetections, announcedObjects).map
              /\ detections' =
                     ProcessFrame(WellFormed(lastTick'.predictions), now + dt, canvasWidth,
                                  trackedDetections, announcedObjects).stable]_vars

\* C28: the announce call at the end of a tick leaves the track map as the
\* matching loop and the sweep left it, and changes the announced set (the
\* records of the swept tracks gone) by the id of the nearest confirmed
\* track when it speaks, and not at all when it does not.
C28_AnnounceTouchesOneRecord ==
    [][TickStep =>
          /\ trackedDetections' =
                 SelectSeq(MatchedMap(lastTick'.steps, trackedDetections),
                           LAMBDA e : e.key \notin lastTick'.removed)
          /\ IF spoken' = spoken
             THEN announcedObjects' = announcedObjects \ lastTick'.removed
             ELSE /\ detections' # << >>
                  /\ announcedObjects' =
                         (announcedObjects \ lastTick'.removed) \cup {detections'[1].id}]_vars

\* The nearest confirmed track is beyond the 3 m of the announcer: the call
\* was made and returned early, with other tracks in the map.
C28_Witness ==
    /\ detections # << >>
    /\ detections[1].smoothedDistance > MAX_ANNOUNCE_DISTANCE
    /\ lastTick.time = now
    /\ Len(trackedDetections) > 1
    /\ announcedObjects = {}
    /\ spoken = << >>

\* C29: no two candidates of a tick update or create the same track, so the
\* frame count of a track never exceeds the number of ticks processed, and
\* no track is confirmed before the fifth tick.
C29_OneUpdatePerTick ==
    /\ \A i, j \in 1..Len(lastTick.steps) :
           i # j => lastTick.steps[i].key # lastTick.steps[j].key
    /\ \A i \in 1..Len(trackedDetections) :
           trackedDetections[i].val.frameCount <= detectionCount
    /\ detectionCount < MIN_FRAMES_FOR_STABILITY => detections = << >>

\* C30: over a tick, the frame count of a track that stays in the map does
\* not decrease, and is unchanged when no candidate matched the track; a
\* track that met the frame-count condition of the stable filter meets it
\* after the tick.
C30_FrameCountKept ==
    [][TickStep =>
          \A i \in 1..Len(trackedDetections) :
              LET key == trackedDetections[i].key
                  tracked == trackedDetections[i].val
              IN  MapHas(trackedDetections', key) =>
                      /\ MapGet(trackedDetections', key).frameCount >= tracked.frameCount
                      /\ key \notin Range(lastTick'.matched) =>
                             MapGet(trackedDetections', key).frameCount = tracked.frameCount
                      /\ tracked.frameCount >= MIN_FRAMES_FOR_STABILITY =>
                             MapGet(trackedDetections', key).frameCount
                                 >= MIN_FRAMES_FOR_STABILITY]_vars

\* A tick without a match for a confirmed track, 600 ms after the track was
\* last seen: the track is still in the map and in the confirmed list.
C30_Witness ==
    /\ lastTick.time = now
    /\ ~lastTick.threw
    /\ lastTick.matched = << >>
    /\ \E i \in 1..Len(trackedDetections) :
           /\ trackedDetections[i].val.frameCount >= MIN_FRAMES_FOR_STABILITY
           /\ trackedDetections[i].val.lastSeen = now - MAX_TRACKING_AGE_MS
           /\ detections = << trackedDetections[i].val >>

----------------------------------------------------------------------------
(* Distances of tracks, labels in the overlap resolver, announcements per  *)
(* tick, the start of the loop, the legacy announcer.                      *)

\* C31: the smoothed distance and the distance of every track in the map
\* lie within the clamp bounds of the estimate.
C31_TrackDistanceWithinClamp ==
    \A i \in 1..Len(trackedDetections) :
        /\ trackedDetections[i].val.smoothedDistance >= DISTANCE_MIN
        /\ trackedDetections[i].val.smoothedDistance <= DISTANCE_MAX
        /\ trackedDetections[i].val.distance >= DISTANCE_MIN
        /\ trackedDetections[i].val.distance <= DISTANCE_MAX

\* Two tracks updated at least twice: one created at the lower bound and
\* then drawn inwards, one drawn up to the upper bound by clamped estimates.
C31_Witness ==
    \E i, j \in 1..Len(trackedDetections) :
        /\ trackedDetections[i].val.frameCount >= 3
        /\ trackedDetections[i].val.smoothedDistance > DISTANCE_MIN
        /\ trackedDetections[i].val.smoothedDistance < 500
        /\ trackedDetections[j].val.frameCount >= 3
        /\ trackedDetections[j].val.smoothedDistance > 7500
        /\ trackedDetections[j].val.smoothedDistance < DISTANCE_MAX
        /\ lastTick.steps # << >>
        /\ lastTick.steps[1].detection.distance = DISTANCE_MIN
        /\ lastTick.steps[Len(lastTick.steps)].detection.distance = DISTANCE_MAX

\* C32: a candidate is removed exactly when its box has IoU > 0.3 with a
\* kept candidate ahead of it in the confidence order, whatever the labels
\* of the two: of two overlapping candidates of different labels the one
\* behind is removed when the one ahead is kept.
C32_OverlapIgnoresLabels ==
    OverlapDone =>
        /\ \A r \in Range(call.args) :
               r \notin Range(call.result)
                   <=> \E k \in Range(call.result) :
                           k # r /\ Overlapping(r, k) /\ Ahead(call.args, k, r)
        /\ \A a, b \in Range(call.args) :
               a.class # b.class /\ Overlapping(a, b) /\ Ahead(call.args, a, b)
                   /\ a \in Range(call.result)
                   => b \notin Range(call.result)

\* A bottle and a cup with the same box: the cup, of higher confidence,
\* removed the bottle.
C32_Witness ==
    /\ OverlapDone
    /\ call.args = << OverlapB, OverlapE >>
    /\ call.result = << OverlapE >>

\* C33: a tick speaks at most one announcement, for the first entry of the
\* confirmed list it emits, whose distance is at most 3 m; no other step
\* speaks an announcement.
C33_OneAnnouncementForNearest ==
    [][IF TickStep
       THEN \/ spoken' = spoken
            \/ /\ Len(spoken') = Len(spoken) + 1
               /\ SubSeq(spoken', 1, Len(spoken)) = spoken
               /\ detections' # << >>
               /\ spoken'[Len(spoken')].id = detections'[1].id
               /\ spoken'[Len(spoken')].time = now'
               /\ detections'[1].distance <= MAX_ANNOUNCE_DISTANCE
       ELSE spoken' = spoken]_vars

\* The nearest confirmed track was announced on an earlier tick; the second
\* of the list, within 3 m and never announced, is not announced.
C33_Witness ==
    /\ Len(detections) >= 2
    /\ lastTick.time = now
    /\ Len(spoken) = 1
    /\ spoken[1].id = detections[1].id
    /\ spoken[1].time < now
    /\ detections[2].distance <= MAX_ANNOUNCE_DISTANCE
    /\ detections[2].id \notin announcedObjects

\* C34: an animation frame of the loop is requested, model.detect is called,
\* a tick is processed or a track exists only when the model is loaded and
\* the video is playing (model and isDetecting are never reset); after a
\* failed model load the camera is never requested and no detect call is
\* ever made.
C34_DetectOnlyWhenReady ==
    /\ (rafQueue # {} \/ pendingDetect > 0 \/ detectionCount > 0
            \/ trackedDetections # << >>)
           => mode = "active" /\ model /\ isDetecting
    /\ isDetecting => model /\ camState = "playing"
    /\ loadState = "failed"
           => /\ ~model /\ ~isDetecting
              /\ camState = "off" /\ ~streamRef
              /\ rafQueue = {} /\ pendingDetect = 0 /\ detectionCount = 0
              /\ trackedDetections = << >>

\* The first model.detect call is in flight.
C34_Witness ==
    /\ pendingDetect = 1
    /\ detectionCount = 0
    /\ nextRaf = 2
    /\ model /\ isDetecting
    /\ committed = Deps

\* C35: in the legacy loop two announcements of the same label are at least
\* 3000 ms apart.
C35_LegacyLabelCooldown ==
    \A i, j \in 1..Len(legacy.spoken) :
        i < j /\ legacy.spoken[i].class = legacy.spoken[j].class
            => legacy.spoken[j].time - legacy.spoken[i].time >= LEGACY_COOLDOWN_MS

=============================================================================
